---------------------------- MODULE Spec2Model ----------------------------
(***************************************************************************)
(* A model of the PPO trainer of src/ppo_trainer.py: the training loop     *)
(* (PPOTrainer.train), rollout collection (collect_rollout), generalized   *)
(* advantage estimation (compute_gae), the policy update (train_step), the *)
(* clipped surrogate loss (compute_ppo_loss), the evaluation episode       *)
(* (evaluate_agent), load_model and save_model, and the entry point with   *)
(* its --resume option and its try/finally around the training run.        *)
(*                                                                         *)
(* Numbers.  The program computes in floating point; the model computes in *)
(* exact rationals <<numerator, denominator>> in lowest terms, so every    *)
(* property below is a property of the arithmetic the code writes down,    *)
(* for finite values, without rounding.                                    *)
(*                                                                         *)
(* Networks.  The actor and the critic are deterministic functions of      *)
(* their weights and of the observation.  The weights are represented by   *)
(* the number of optimizer steps applied to them; CriticForward and        *)
(* ActorLogProb are stand-in tables for the two forward passes.            *)
(*                                                                         *)
(* Environment.  The environment is an external collaborator: reset and    *)
(* step return any value of a small set of observations, rewards and       *)
(* flags.  Every call of the environment is appended to env_trace, a       *)
(* history variable the program does not hold.  In a run of the whole      *)
(* training loop one call of one iteration is eventful: there, the         *)
(* environment (or the loss) returns any value of its set; every other     *)
(* call of the run returns one fixed value.  Which call is eventful is     *)
(* chosen in the initial state and kept in the variable eventful.          *)
(***************************************************************************)
EXTENDS Integers, Sequences, FiniteSets, TLC

(***************************************************************************)
(* Exact rational arithmetic.                                              *)
(***************************************************************************)
Abs(i) == IF i < 0 THEN -i ELSE i

RECURSIVE Gcd(_, _)
Gcd(a, b) == IF b = 0 THEN a ELSE Gcd(b, a % b)

\* n/d in lowest terms with a positive denominator.
Frac(n, d) ==
    LET s == IF d < 0 THEN -1 ELSE 1
        g == Gcd(Abs(n), Abs(d))
    IN  <<(s * n) \div g, (s * d) \div g>>

R(i) == <<i, 1>>

RAdd(p, q) ==
    LET g == Gcd(p[2], q[2])
    IN  Frac(p[1] * (q[2] \div g) + q[1] * (p[2] \div g), p[2] * (q[2] \div g))

RNeg(p) == <<-p[1], p[2]>>

RSub(p, q) == RAdd(p, RNeg(q))

RMul(p, q) ==
    LET g1 == Gcd(Abs(p[1]), q[2])
        g2 == Gcd(Abs(q[1]), p[2])
    IN  Frac((p[1] \div g1) * (q[1] \div g2), (p[2] \div g2) * (q[2] \div g1))

RDivInt(p, k) == RMul(p, Frac(1, k))

RLess(p, q) == p[1] * q[2] < q[1] * p[2]

RMin(p, q) == IF RLess(q, p) THEN q ELSE p

RClamp(x, lo, hi) == IF RLess(x, lo) THEN lo ELSE IF RLess(hi, x) THEN hi ELSE x

RECURSIVE RSum(_)
RSum(s) == IF s = <<>> THEN R(0) ELSE RAdd(s[1], RSum(Tail(s)))

\* numpy.mean / torch.mean of a non-empty sequence.
RMean(s) == RDivInt(RSum(s), Len(s))

\* 1 - x for a 0/1 flag x stored as a boolean (torch.FloatTensor(dones)).
NotDone(d) == IF d THEN R(0) ELSE R(1)

(***************************************************************************)
(* Bounds of the model and constants of the program.                       *)
(***************************************************************************)
\* Longest collection horizon explored by SpecRollout.
MaxSteps == 3
\* Collection horizon of the runs of the whole training loop.
TrainSteps == 1
\* The eventful call of a training run lies in one of the first ExploreIters
\* iterations.
ExploreIters == 2
\* Iteration count of the short training run.
ShortRun == 2
\* Iteration count of the long training run (reaches a periodic checkpoint).
LongRun == 101
\* Largest episode_count left in the trainer before train is called.
MaxResume == 1
\* Longest evaluation episode the modelled environment produces.
MaxEvalSteps == 2
\* Longest trajectory given to compute_gae by SpecGae.
MaxGaeLen == 3
\* Largest batch given to compute_ppo_loss by SpecLoss.
MaxBatch == 2

\* for epoch in range(10)
NumEpochs == 10
\* if (self.episode_count + 1) % 100 == 0
CheckpointPeriod == 100

Obs == {0, 1}
Actions == {0}
Rewards == {R(0), R(1)}
Distances == {R(1), R(2)}

VARIABLES
    pc,                 \* where the program is
    \* PPOTrainer fields
    gamma, gae_lambda, clip_ratio, target_kl,
    params,             \* actor/critic weights and both optimizers' state
    episode_count, success_count,
    files,              \* checkpoint files written by save_model
    logged,             \* steps at which train/* diagnostics were written
    \* arguments of train
    num_iterations, max_steps,
    \* the call in which the environment and the loss are unconstrained
    eventful,
    \* __main__
    resume,             \* params.resume
    raised,             \* the exception that left the try block, if any
    \* collect_rollout
    state, states, actions, rewards, values, log_probs, dones, final_value,
    episode_rewards, current_episode_reward,
    \* compute_gae
    advantages, returns,
    \* train_step
    epoch, total_losses, value_losses, kl_divs, metrics,
    \* evaluate_agent
    terminated, truncated, min_rel_dist, episode_reward, info,
    \* compute_ppo_loss (actor part)
    ratio, loss_adv, actor_loss,
    \* history
    env_trace,          \* the calls of env.reset / env.step of the running operation
    loss_calls,         \* the results of compute_ppo_loss in the running train_step
    params0,            \* params when the running train_step was entered
    hist                \* how often each step of train has completed

trainer == <<gamma, gae_lambda, clip_ratio, target_kl, episode_count, success_count,
             files, logged, num_iterations, max_steps, eventful, resume, raised>>
rollout == <<state, states, actions, rewards, values, log_probs, dones, final_value,
             episode_rewards, current_episode_reward>>
gae == <<advantages, returns>>
update == <<epoch, total_losses, value_losses, kl_divs, metrics, loss_calls, params0>>
evaluation == <<terminated, truncated, min_rel_dist, episode_reward, info>>
loss == <<ratio, loss_adv, actor_loss>>

vars == <<pc, params, trainer, rollout, gae, update, evaluation, loss, env_trace, hist>>

None == "none"

\* No exception is propagating.
NoError == [kind |-> "none", path |-> 0, at |-> "none"]

\* np.inf, the initial min_rel_dist of evaluate_agent.
Inf == "inf"

(***************************************************************************)
(* The environment (external): what reset and step may return.             *)
(***************************************************************************)
\* The operations of an iteration that call the environment or the loss.
Phases == {"collect", "update", "eval"}

\* Whether the running call is the eventful one of the run.
Explore(phase) == eventful.iteration = episode_count /\ eventful.phase = phase

NoInfo == [relative_distance |-> R(0), success |-> FALSE]

\* env.reset() -> (observation, info)
ResetObs(phase) == IF Explore(phase) THEN Obs ELSE {0}

\* env.step(action) -> (observation, reward, terminated, truncated, info), as
\* collect_rollout reads it: info is not read there.
QuietStep ==
    [obs |-> 0, reward |-> R(0), terminated |-> TRUE, truncated |-> FALSE, info |-> NoInfo]

StepResults ==
    IF Explore("collect")
    THEN [obs : Obs, reward : Rewards, terminated : BOOLEAN, truncated : BOOLEAN,
          info : {NoInfo}]
    ELSE {QuietStep}

\* env.step(action) as evaluate_agent reads it: info carries relative_distance
\* and success.
EvalStepResults ==
    IF Explore("eval")
    THEN [obs : Obs, reward : Rewards, terminated : BOOLEAN, truncated : BOOLEAN,
          info : [relative_distance : Distances, success : BOOLEAN]]
    ELSE {QuietStep}

ResetCall(o) ==
    [op |-> "reset", obs |-> o, reward |-> R(0), terminated |-> FALSE,
     truncated |-> FALSE, info |-> NoInfo]

StepCall(r) ==
    [op |-> "step", obs |-> r.obs, reward |-> r.reward, terminated |-> r.terminated,
     truncated |-> r.truncated, info |-> r.info]

(***************************************************************************)
(* The networks.                                                           *)
(***************************************************************************)
\* value = self.critic(state_tensor): a function of the critic's weights w
\* and of the observation s, one-to-one in s for fixed weights.
CriticForward(w, s) == R((s + w) % Cardinality(Obs))

\* log_prob = dist.log_prob(action).sum(dim=-1), dist built from the actor.
ActorLogProb(w, s, a) == R(-(1 + ((s + a + w) % 2)))

\* self.actor_optimizer.step(); self.critic_optimizer.step()
OptimizerStep(p) ==
    [actor |-> p.actor + 1, critic |-> p.critic + 1,
     actor_opt |-> p.actor_opt + 1, critic_opt |-> p.critic_opt + 1]

(***************************************************************************)
(* compute_gae (lines 243-264).                                            *)
(***************************************************************************)
\* next_value_t: the bootstrap value at the last index, values[t + 1] otherwise.
NextValueAt(vals, nv, t) == IF t = Len(vals) THEN nv ELSE vals[t + 1]

\* delta = rewards[t] + self.gamma * next_value_t * (1 - dones[t]) - values[t]
GaeDelta(r, nvt, d, v, g) == RSub(RAdd(r, RMul(RMul(g, nvt), NotDone(d))), v)

\* Mutant: the carried advantage is not masked by (1 - dones[t]).
GaeCarryUnmasked(delta, d, last, g, lam) == RAdd(delta, RMul(RMul(g, lam), last))

\* Mutant: the carried advantage is discounted by gamma alone.
GaeCarryNoLambda(delta, d, last, g, lam) == RAdd(delta, RMul(RMul(g, NotDone(d)), last))

\* last_gae = delta + self.gamma * self.gae_lambda * (1 - dones[t]) * last_gae
GaeCarry(delta, d, last, g, lam) ==
    RAdd(delta, RMul(RMul(RMul(g, lam), NotDone(d)), last))

\* advantages[t] as the backward loop leaves it; last_gae starts at 0.
RECURSIVE GaeAt(_, _, _, _, _, _, _)
GaeAt(rw, vals, dn, nv, g, lam, t) ==
    IF t > Len(rw)
    THEN R(0)
    ELSE GaeCarry(GaeDelta(rw[t], NextValueAt(vals, nv, t), dn[t], vals[t], g),
                  dn[t], GaeAt(rw, vals, dn, nv, g, lam, t + 1), g, lam)

GaeAdvantages(rw, vals, dn, nv, g, lam) ==
    [t \in 1..Len(rw) |-> GaeAt(rw, vals, dn, nv, g, lam, t)]

\* Mutant: the returns are the advantages plus the bootstrap targets of the
\* next step instead of the value estimates of the step itself.
GaeReturnsShifted(adv, vals) ==
    [t \in 1..Len(adv) |-> RAdd(adv[t], IF t = Len(vals) THEN R(0) ELSE vals[t + 1])]

\* returns = advantages + values
GaeReturns(adv, vals) == [t \in 1..Len(adv) |-> RAdd(adv[t], vals[t])]

(***************************************************************************)
(* compute_ppo_loss (lines 291-294, 304) and the early-stop test.          *)
(***************************************************************************)
\* clip_adv = torch.clamp(ratio, 1 - clip, 1 + clip) * advantages, one sample
ClipAdv(rho, a, eps) == RMul(RClamp(rho, RSub(R(1), eps), RAdd(R(1), eps)), a)

\* Mutant: the unclipped surrogate.
SurrogateUnclipped(rho, a, eps) == RMul(rho, a)

\* torch.min(ratio * advantages, clip_adv), one sample
Surrogate(rho, a, eps) == RMin(RMul(rho, a), ClipAdv(rho, a, eps))

\* actor_loss = -torch.min(ratio * advantages, clip_adv).mean()
ActorLoss(rhos, advs, eps) ==
    RNeg(RMean([i \in 1..Len(rhos) |-> Surrogate(rhos[i], advs[i], eps)]))

\* What compute_ppo_loss may return for total_loss, value_loss and kl_div:
\* one result with no divergence, one with the KL exactly at
\* 1.5 * target_kl, one above it.
LossResults ==
    IF Explore("update")
    THEN {[total_loss |-> R(2), value_loss |-> Frac(1, 2), kl_div |-> R(0)],
          [total_loss |-> R(1), value_loss |-> R(1), kl_div |-> Frac(3, 200)],
          [total_loss |-> R(3), value_loss |-> R(2), kl_div |-> Frac(1, 50)]}
    ELSE {[total_loss |-> R(3), value_loss |-> R(2), kl_div |-> Frac(1, 50)]}

\* if kl_div > 1.5 * self.target_kl
KlTooHigh(kl) == RLess(RMul(Frac(3, 2), target_kl), kl)

(***************************************************************************)
(* Initial states.                                                         *)
(***************************************************************************)
NoCalls == [collect |-> 0, gae |-> 0, update |-> 0, log |-> 0, save |-> 0, eval |-> 0]

FreshParams == [actor |-> 0, critic |-> 0, actor_opt |-> 0, critic_opt |-> 0]

\* Everything but pc, the arguments of train, the hyperparameters, the
\* trajectory and the inputs of the loss: a trainer as __init__ leaves it.
InitRest ==
    /\ params = FreshParams
    /\ success_count = 0
    /\ files = {}
    /\ logged = <<>>
    /\ state = None
    /\ actions = <<>>
    /\ log_probs = <<>>
    /\ episode_rewards = <<>>
    /\ current_episode_reward = R(0)
    /\ advantages = <<>>
    /\ returns = <<>>
    /\ epoch = 0
    /\ total_losses = <<>>
    /\ value_losses = <<>>
    /\ kl_divs = <<>>
    /\ metrics = None
    /\ terminated = FALSE
    /\ truncated = FALSE
    /\ min_rel_dist = Inf
    /\ episode_reward = R(0)
    /\ info = NoInfo
    /\ actor_loss = None
    /\ env_trace = <<>>
    /\ loss_calls = <<>>
    /\ params0 = FreshParams
    /\ hist = NoCalls
    /\ raised = NoError

NoTrajectory ==
    /\ states = <<>>
    /\ rewards = <<>>
    /\ values = <<>>
    /\ dones = <<>>
    /\ final_value = None

\* gamma = 0.99, gae_lambda = 0.95, clip_ratio = 0.2, target_kl = 0.01
DefaultHyper ==
    /\ gamma = Frac(99, 100)
    /\ gae_lambda = Frac(95, 100)
    /\ clip_ratio = Frac(1, 5)
    /\ target_kl = Frac(1, 100)

NoLossInput ==
    /\ ratio = <<>>
    /\ loss_adv = <<>>

\* trainer.train(num_iterations=params.n_epochs, max_steps=params.max_steps),
\* called on a trainer whose episode_count is 0 or another value left there
\* before the call.
Init ==
    /\ pc = "train"
    /\ episode_count \in 0..MaxResume
    /\ num_iterations \in {0, ShortRun, LongRun}
    /\ max_steps = TrainSteps
    /\ eventful \in [iteration : 0..(ExploreIters - 1), phase : Phases]
    /\ resume = -1
    /\ DefaultHyper
    /\ NoTrajectory
    /\ NoLossInput
    /\ InitRest

(***************************************************************************)
(* PPOTrainer.train (lines 446-483) and the operations it calls.           *)
(***************************************************************************)
Called(step) == [hist EXCEPT ![step] = @ + 1]

\* self.episode_count = 0
TrainEnter ==
    /\ pc = "train"
    /\ episode_count' = 0
    /\ pc' = "loop"
    /\ UNCHANGED <<params, gamma, gae_lambda, clip_ratio, target_kl, success_count,
                   files, logged, num_iterations, max_steps, eventful, resume, raised, rollout, gae, update,
                   evaluation, loss, env_trace, hist>>

\* Mutant: the loop test admits one iteration more.
LoopContinuesInclusive == episode_count <= num_iterations

\* while self.episode_count < num_iterations
LoopContinues == episode_count < num_iterations

\* The loop test succeeds and collect_rollout starts: empty buffers (lines
\* 371-376), the first env.reset (line 378), the episode accumulators.
CollectBegin ==
    /\ pc = "loop"
    /\ LoopContinues
    /\ \E o \in ResetObs("collect") :
        /\ state' = o
        /\ env_trace' = <<ResetCall(o)>>
    /\ states' = <<>>
    /\ actions' = <<>>
    /\ rewards' = <<>>
    /\ values' = <<>>
    /\ log_probs' = <<>>
    /\ dones' = <<>>
    /\ final_value' = None
    /\ episode_rewards' = <<>>
    /\ current_episode_reward' = R(0)
    /\ pc' = "rollout"
    /\ UNCHANGED <<params, trainer, gae, update, evaluation, loss, hist>>

\* The loop test fails: train returns.
TrainExit ==
    /\ pc = "loop"
    /\ ~LoopContinues
    /\ pc' = "done"
    /\ UNCHANGED <<params, trainer, rollout, gae, update, evaluation, loss, env_trace, hist>>

\* Mutant: the loop runs once more than the horizon.
CollectMoreInclusive == Len(states) <= max_steps

\* for _ in trange(max_steps)
CollectMore == Len(states) < max_steps

\* Mutant: the commented-out "done = terminated or truncated" is stored.
DoneFlagEither(r) == r.terminated \/ r.truncated

\* dones.append(terminated)
DoneFlag(r) == r.terminated

\* Mutant: the environment is reset on termination only.
EpisodeEndedTerminatedOnly(r) == r.terminated

\* if terminated or truncated:  # Reset on either condition.
EpisodeEnded(r) == r.terminated \/ r.truncated

\* One pass of the collection loop (lines 385-423): act, step the environment,
\* store the experience, and reset the environment when the episode ended.
RolloutStep ==
    /\ pc = "rollout"
    /\ CollectMore
    /\ \E a \in Actions, r \in StepResults :
        /\ states' = Append(states, state)
        /\ actions' = Append(actions, a)
        /\ rewards' = Append(rewards, r.reward)
        /\ values' = Append(values, CriticForward(params.critic, state))
        /\ log_probs' = Append(log_probs, ActorLogProb(params.actor, state, a))
        /\ dones' = Append(dones, DoneFlag(r))
        /\ IF EpisodeEnded(r)
           THEN /\ episode_rewards' =
                       Append(episode_rewards, RAdd(current_episode_reward, r.reward))
                /\ current_episode_reward' = R(0)
                /\ \E o \in ResetObs("collect") :
                    /\ state' = o
                    /\ env_trace' = env_trace \o <<StepCall(r), ResetCall(o)>>
           ELSE /\ episode_rewards' = episode_rewards
                /\ current_episode_reward' = RAdd(current_episode_reward, r.reward)
                /\ state' = r.obs
                /\ env_trace' = Append(env_trace, StepCall(r))
    /\ UNCHANGED <<pc, final_value, params, trainer, gae, update, evaluation, loss, hist>>

\* scalars written under a tag group at step self.episode_count
Scalars(group) == [group |-> group, step |-> episode_count]

\* After the loop (lines 425-444): the bootstrap value of the last observed
\* state, the rollout scalars when an episode ended, and the return; the
\* locals of collect_rollout that are not returned end with the call.
RolloutEnd ==
    /\ pc = "rollout"
    /\ ~CollectMore
    /\ final_value' = CriticForward(params.critic, state)
    /\ logged' = IF episode_rewards # <<>> THEN Append(logged, Scalars("rollout")) ELSE logged
    /\ state' = None
    /\ episode_rewards' = <<>>
    /\ current_episode_reward' = R(0)
    /\ hist' = Called("collect")
    /\ pc' = "gae"
    /\ UNCHANGED <<states, actions, rewards, values, log_probs, dones, params, gamma,
                   gae_lambda, clip_ratio, target_kl, episode_count, success_count, files,
                   num_iterations, max_steps, eventful, resume, raised, gae, update, evaluation, loss, env_trace>>

\* advantages, returns = self.compute_gae(rewards, values, dones, [final_value])
Gae ==
    /\ pc = "gae"
    /\ advantages' = GaeAdvantages(rewards, values, dones, final_value, gamma, gae_lambda)
    /\ returns' = GaeReturns(advantages', values)
    /\ hist' = Called("gae")
    /\ pc' = "train_step"
    /\ UNCHANGED <<params, trainer, rollout, update, evaluation, loss, env_trace>>

\* train_step is entered (lines 317-330): empty metric lists.  The advantages
\* normalised on line 325 are a local of train_step that only the loss reads.
UpdateBegin ==
    /\ pc = "train_step"
    /\ epoch' = 0
    /\ total_losses' = <<>>
    /\ value_losses' = <<>>
    /\ kl_divs' = <<>>
    /\ loss_calls' = <<>>
    /\ params0' = params
    /\ pc' = "epoch"
    /\ UNCHANGED <<metrics, params, trainer, rollout, gae, evaluation, loss, env_trace, hist>>

\* An epoch whose KL is not too high (lines 335-356): the metrics are tracked
\* and both optimizers step.
EpochApply ==
    /\ pc = "epoch"
    /\ epoch < NumEpochs
    /\ \E r \in LossResults :
        /\ ~KlTooHigh(r.kl_div)
        /\ total_losses' = Append(total_losses, r.total_loss)
        /\ value_losses' = Append(value_losses, r.value_loss)
        /\ kl_divs' = Append(kl_divs, r.kl_div)
        /\ loss_calls' = Append(loss_calls, r)
    /\ params' = OptimizerStep(params)
    /\ epoch' = epoch + 1
    /\ UNCHANGED <<pc, metrics, params0, trainer, rollout, gae, evaluation, loss,
                   env_trace, hist>>

\* Mutant: the KL test comes after the update, so the stopping epoch is applied.
EpochStopAfterUpdate ==
    /\ pc = "epoch"
    /\ epoch < NumEpochs
    /\ \E r \in LossResults :
        /\ KlTooHigh(r.kl_div)
        /\ total_losses' = Append(total_losses, r.total_loss)
        /\ value_losses' = Append(value_losses, r.value_loss)
        /\ kl_divs' = Append(kl_divs, r.kl_div)
        /\ loss_calls' = Append(loss_calls, r)
    /\ params' = OptimizerStep(params)
    /\ pc' = "stopped"
    /\ UNCHANGED <<epoch, metrics, params0, trainer, rollout, gae, evaluation,
                   loss, env_trace, hist>>

\* An epoch whose KL is too high (lines 335-347): the metrics are tracked and
\* the loop is left before the update.
EpochStop ==
    /\ pc = "epoch"
    /\ epoch < NumEpochs
    /\ \E r \in LossResults :
        /\ KlTooHigh(r.kl_div)
        /\ total_losses' = Append(total_losses, r.total_loss)
        /\ value_losses' = Append(value_losses, r.value_loss)
        /\ kl_divs' = Append(kl_divs, r.kl_div)
        /\ loss_calls' = Append(loss_calls, r)
    /\ pc' = "stopped"
    /\ UNCHANGED <<epoch, metrics, params, params0, trainer, rollout, gae, evaluation,
                   loss, env_trace, hist>>

\* Mutant: the sums are divided by the fixed epoch count, as if every epoch
\* had run.
AverageMetricsFixedCount(tl, vl, kl) ==
    [total_loss |-> RDivInt(RSum(tl), NumEpochs),
     value_loss |-> RDivInt(RSum(vl), NumEpochs),
     kl_div |-> RDivInt(RSum(kl), NumEpochs)]

\* avg_total_loss, avg_value_loss, avg_kl_div (lines 359-367)
AverageMetrics(tl, vl, kl) ==
    [total_loss |-> RMean(tl), value_loss |-> RMean(vl), kl_div |-> RMean(kl)]

\* The epoch loop is over, by exhaustion or by the break: train_step returns
\* the averaged metrics, and its locals end with the call.
UpdateEnd ==
    /\ IF pc = "epoch" THEN epoch = NumEpochs ELSE pc = "stopped"
    /\ metrics' = AverageMetrics(total_losses, value_losses, kl_divs)
    /\ epoch' = 0
    /\ total_losses' = <<>>
    /\ value_losses' = <<>>
    /\ kl_divs' = <<>>
    /\ hist' = Called("update")
    /\ pc' = "log"
    /\ UNCHANGED <<loss_calls, params0, params, trainer, rollout, gae, evaluation, loss,
                   env_trace>>

\* Lines 465-476: the train/* scalars and the log lines of the iteration.
Log ==
    /\ pc = "log"
    /\ logged' = Append(logged, Scalars("train"))
    /\ hist' = Called("log")
    /\ pc' = "save"
    /\ UNCHANGED <<params, gamma, gae_lambda, clip_ratio, target_kl, episode_count,
                   success_count, files, num_iterations, max_steps, eventful, resume, raised, rollout, gae, update,
                   evaluation, loss, env_trace>>

\* if (self.episode_count + 1) % 100 == 0
SaveDue == (episode_count + 1) % CheckpointPeriod = 0

\* torch.save({...four state dicts...}, checkpoint_root / filename)
SaveModel(name) == {f \in files : f.name # name} \cup {[name |-> name, params |-> params]}

\* self.save_model(f"ppo_model_{self.episode_count + 1}_...")
SavePeriodic ==
    /\ pc = "save"
    /\ SaveDue
    /\ files' = SaveModel(episode_count + 1)
    /\ hist' = Called("save")
    /\ pc' = "eval"
    /\ UNCHANGED <<params, gamma, gae_lambda, clip_ratio, target_kl, episode_count,
                   success_count, logged, num_iterations, max_steps, eventful, resume, raised, rollout, gae, update,
                   evaluation, loss, env_trace>>

SaveSkip ==
    /\ pc = "save"
    /\ ~SaveDue
    /\ pc' = "eval"
    /\ UNCHANGED <<params, trainer, rollout, gae, update, evaluation, loss, env_trace, hist>>

(***************************************************************************)
(* evaluate_agent (lines 485-522).                                         *)
(***************************************************************************)
\* state, info = self.env.reset(options={'render': True}) and the locals
EvalBegin ==
    /\ pc = "eval"
    /\ \E o \in ResetObs("eval") :
        /\ state' = o
        /\ env_trace' = <<ResetCall(o)>>
    /\ terminated' = FALSE
    /\ truncated' = FALSE
    /\ min_rel_dist' = Inf
    /\ episode_reward' = R(0)
    /\ info' = NoInfo
    /\ pc' = "eval_loop"
    /\ UNCHANGED <<states, actions, rewards, values, log_probs, dones, final_value,
                   episode_rewards, current_episode_reward, params, trainer, gae, update,
                   loss, hist>>

\* Mutant: the margin reported is the one of the last step.
MinDistLast(m, d) == d

\* min(min_rel_dist, info['relative_distance'])
MinDist(m, d) == IF m = Inf THEN d ELSE IF RLess(d, m) THEN d ELSE m

\* Number of env.step calls in env_trace.
StepsTaken == Cardinality({i \in 1..Len(env_trace) : env_trace[i].op = "step"})

\* One pass of the loop (lines 492-503).  An episode of the modelled
\* environment ends at its MaxEvalSteps-th step at the latest.
EvalStep ==
    /\ pc = "eval_loop"
    /\ ~truncated /\ ~terminated
    /\ \E a \in Actions, r \in EvalStepResults :
        /\ StepsTaken + 1 >= MaxEvalSteps => EpisodeEnded(r)
        /\ state' = r.obs
        /\ terminated' = r.terminated
        /\ truncated' = r.truncated
        /\ info' = r.info
        /\ min_rel_dist' = MinDist(min_rel_dist, r.info.relative_distance)
        /\ episode_reward' = RAdd(episode_reward, r.reward)
        /\ env_trace' = Append(env_trace, StepCall(r))
    /\ UNCHANGED <<pc, states, actions, rewards, values, log_probs, dones, final_value,
                   episode_rewards, current_episode_reward, params, trainer, gae, update,
                   loss, hist>>

\* Mutant: the evaluation pass ends with an optimizer step.
EvalEndTrains ==
    /\ pc = "eval_loop"
    /\ truncated \/ terminated
    /\ logged' = Append(logged, Scalars("eval"))
    /\ success_count' = IF info.success THEN success_count + 1 ELSE success_count
    /\ state' = None
    /\ terminated' = FALSE
    /\ truncated' = FALSE
    /\ min_rel_dist' = Inf
    /\ episode_reward' = R(0)
    /\ info' = NoInfo
    /\ env_trace' = <<>>
    /\ hist' = Called("eval")
    /\ params' = OptimizerStep(params)
    /\ pc' = "increment"
    /\ UNCHANGED <<states, actions, rewards, values, log_probs, dones, final_value,
                   episode_rewards, current_episode_reward, gamma, gae_lambda,
                   clip_ratio, target_kl, episode_count, files, num_iterations, max_steps, eventful, resume, raised,
                   gae, update, loss>>

\* After the loop (lines 505-522): the eval/* scalars and the success count;
\* the locals of evaluate_agent end with the call.
EvalEnd ==
    /\ pc = "eval_loop"
    /\ truncated \/ terminated
    /\ logged' = Append(logged, Scalars("eval"))
    /\ success_count' = IF info.success THEN success_count + 1 ELSE success_count
    /\ state' = None
    /\ terminated' = FALSE
    /\ truncated' = FALSE
    /\ min_rel_dist' = Inf
    /\ episode_reward' = R(0)
    /\ info' = NoInfo
    /\ env_trace' = <<>>
    /\ hist' = Called("eval")
    /\ pc' = "increment"
    /\ UNCHANGED <<states, actions, rewards, values, log_probs, dones, final_value,
                   episode_rewards, current_episode_reward, params, gamma, gae_lambda,
                   clip_ratio, target_kl, episode_count, files, num_iterations, max_steps, eventful, resume, raised,
                   gae, update, loss>>

\* self.episode_count += 1
Increment ==
    /\ pc = "increment"
    /\ episode_count' = episode_count + 1
    /\ pc' = "loop"
    /\ UNCHANGED <<params, gamma, gae_lambda, clip_ratio, target_kl, success_count,
                   files, logged, num_iterations, max_steps, eventful, resume, raised, rollout, gae, update,
                   evaluation, loss, env_trace, hist>>

(***************************************************************************)
(* The training run.                                                       *)
(***************************************************************************)
Next ==
    \/ TrainEnter
    \/ CollectBegin
    \/ RolloutStep
    \/ RolloutEnd
    \/ Gae
    \/ UpdateBegin
    \/ EpochApply
    \/ EpochStop
    \/ UpdateEnd
    \/ Log
    \/ SavePeriodic
    \/ SaveSkip
    \/ EvalBegin
    \/ EvalStep
    \/ EvalEnd
    \/ Increment
    \/ TrainExit

Spec == Init /\ [][Next]_vars

(***************************************************************************)
(* collect_rollout on its own: one call, every horizon up to MaxSteps.     *)
(***************************************************************************)
InitRollout ==
    /\ pc = "loop"
    /\ episode_count = 0
    /\ num_iterations = 1
    /\ max_steps \in 1..MaxSteps
    /\ eventful = [iteration |-> 0, phase |-> "collect"]
    /\ resume = -1
    /\ DefaultHyper
    /\ NoTrajectory
    /\ NoLossInput
    /\ InitRest

NextRollout ==
    \/ CollectBegin
    \/ RolloutStep
    \/ RolloutEnd

SpecRollout == InitRollout /\ [][NextRollout]_vars

(***************************************************************************)
(* compute_gae on its own: the inputs are drawn from small sets, and the   *)
(* scenario of the specification's section 8 is one of them.               *)
(***************************************************************************)
GaeRewards == {R(0), R(1)}
GaeValues == {Frac(-1, 2), R(1)}
Discounts == {R(0), Frac(1, 2), R(1)}

\* rewards=[1,1,1], values=[0,0,0], dones=[0,0,1], gamma=0.99, lambda=0.95,
\* final_value=0
Scenario ==
    /\ rewards = <<R(1), R(1), R(1)>>
    /\ values = <<R(0), R(0), R(0)>>
    /\ dones = <<FALSE, FALSE, TRUE>>
    /\ final_value = R(0)
    /\ gamma = Frac(99, 100)
    /\ gae_lambda = Frac(95, 100)

InitGae ==
    /\ pc = "gae"
    /\ episode_count = 0
    /\ num_iterations = 1
    /\ max_steps = 1
    /\ eventful = [iteration |-> 0, phase |-> "collect"]
    /\ resume = -1
    /\ clip_ratio = Frac(1, 5)
    /\ target_kl = Frac(1, 100)
    /\ \/ Scenario
       \/ \E n \in 1..MaxGaeLen :
            /\ rewards \in [1..n -> GaeRewards]
            /\ values \in [1..n -> GaeValues]
            /\ dones \in [1..n -> BOOLEAN]
            /\ final_value \in GaeValues
            /\ gamma \in Discounts
            /\ gae_lambda \in Discounts
    /\ states = <<>>
    /\ NoLossInput
    /\ InitRest

SpecGae == InitGae /\ [][Gae]_vars

(***************************************************************************)
(* The actor part of compute_ppo_loss on its own: the importance ratios    *)
(* (exp of a log-probability difference, so positive) and the advantages   *)
(* of a batch are drawn from small sets.                                   *)
(***************************************************************************)
Ratios == {Frac(1, 2), Frac(4, 5), Frac(9, 10), R(1), Frac(11, 10), Frac(6, 5), Frac(3, 2)}
LossAdvantages == {R(-1), R(0), R(1), R(2)}
ClipRatios == {Frac(1, 10), Frac(1, 5)}

InitLoss ==
    /\ pc = "loss"
    /\ episode_count = 0
    /\ num_iterations = 1
    /\ max_steps = 1
    /\ eventful = [iteration |-> 0, phase |-> "collect"]
    /\ resume = -1
    /\ gamma = Frac(99, 100)
    /\ gae_lambda = Frac(95, 100)
    /\ target_kl = Frac(1, 100)
    /\ clip_ratio \in ClipRatios
    /\ \E n \in 1..MaxBatch :
        /\ ratio \in [1..n -> Ratios]
        /\ loss_adv \in [1..n -> LossAdvantages]
    /\ NoTrajectory
    /\ InitRest

\* Lines 292-294: the clipped surrogate loss of the batch.
ActorLossStep ==
    /\ pc = "loss"
    /\ actor_loss' = ActorLoss(ratio, loss_adv, clip_ratio)
    /\ pc' = "loss_done"
    /\ UNCHANGED <<ratio, loss_adv, params, trainer, rollout, gae, update, evaluation,
                   env_trace, hist>>

SpecLoss == InitLoss /\ [][ActorLossStep]_vars

(***************************************************************************)
(* __main__ (lines 591-599): the try block around load_model and train,    *)
(* and its finally clause.  A checkpoint file is named by the iteration    *)
(* number in its name; the file f'ppo_{comment}_latest.pth' is named 0.    *)
(* An exception leaves the try block at once: pc becomes "finally" with    *)
(* everything else as the raising statement left it.                       *)
(***************************************************************************)
\* Longest collection horizon of the runs started from __main__.
MainSteps == 2

\* f'ppo_{params.comment}_latest.pth'
LatestName == 0

\* (checkpoint_root / filename).exists()
Exists(name) == \E f \in files : f.name = name

\* torch.load(checkpoint_root / filename)
Checkpoint(name) == CHOOSE f \in files : f.name = name

\* Mutant: a missing file is replaced by whatever checkpoint there is.
LoadedParamsDegraded(name) ==
    IF Exists(name)
    THEN Checkpoint(name).params
    ELSE IF files # {} THEN (CHOOSE f \in files : TRUE).params ELSE params

\* The four state dicts after load_model(name): those of the file, or, when
\* the file does not exist, the ones the trainer had (the error is raised
\* before anything is loaded).
LoadedParams(name) == IF Exists(name) THEN Checkpoint(name).params ELSE params

\* raise ValueError(f"Checkpoint {checkpoint_root / filename} doesn't exist!")
\* An exception carries the place it was raised at.
MissingCheckpoint(name) == [kind |-> "ValueError", path |-> name, at |-> pc]

KeyboardInterrupt == [kind |-> "KeyboardInterrupt", path |-> 0, at |-> pc]

\* Whatever the environment raises.
EnvError == [kind |-> "EnvError", path |-> 0, at |-> pc]

\* A checkpoint written by an earlier run.
EarlierParams == [actor |-> 3, critic |-> 3, actor_opt |-> 3, critic_opt |-> 3]

\* The values of --resume: the default, a checkpoint number, another one.
ResumeValues == {-1, CheckpointPeriod, 2 * CheckpointPeriod}

\* if params.resume > 0 is false: train is called on the fresh trainer.
MainFresh ==
    /\ pc = "main"
    /\ ~(resume > 0)
    /\ pc' = "train"
    /\ UNCHANGED <<params, trainer, rollout, gae, update, evaluation, loss, env_trace, hist>>

\* trainer.load_model(...); trainer.episode_count = params.resume
MainResume ==
    /\ pc = "main"
    /\ resume > 0
    /\ Exists(resume)
    /\ params' = LoadedParams(resume)
    /\ episode_count' = resume
    /\ pc' = "train"
    /\ UNCHANGED <<gamma, gae_lambda, clip_ratio, target_kl, success_count, files, logged,
                   num_iterations, max_steps, eventful, resume, raised, rollout, gae, update,
                   evaluation, loss, env_trace, hist>>

\* trainer.load_model(...) raises: the file does not exist.
MainLoadFails ==
    /\ pc = "main"
    /\ resume > 0
    /\ ~Exists(resume)
    /\ params' = LoadedParams(resume)
    /\ raised' = MissingCheckpoint(resume)
    /\ pc' = "finally"
    /\ UNCHANGED <<gamma, gae_lambda, clip_ratio, target_kl, episode_count, success_count,
                   files, logged, num_iterations, max_steps, eventful, resume, rollout, gae,
                   update, evaluation, loss, env_trace, hist>>

\* Where train can be when an interrupt arrives.
InTrain ==
    pc \in {"train", "loop", "rollout", "gae", "train_step", "epoch", "stopped", "log",
            "save", "eval", "eval_loop", "increment"}

\* A KeyboardInterrupt arrives while train runs: nothing catches it before
\* the finally clause.
Interrupt ==
    /\ InTrain
    /\ raised' = KeyboardInterrupt
    /\ pc' = "finally"
    /\ UNCHANGED <<params, gamma, gae_lambda, clip_ratio, target_kl, episode_count,
                   success_count, files, logged, num_iterations, max_steps, eventful, resume,
                   rollout, gae, update, evaluation, loss, env_trace, hist>>

RaiseCall ==
    [op |-> "raise", obs |-> 0, reward |-> R(0), terminated |-> FALSE,
     truncated |-> FALSE, info |-> NoInfo]

\* Mutant: the failing step is recorded with a filled-in transition.
RolloutStepRaisesRecorded ==
    /\ pc = "rollout"
    /\ CollectMore
    /\ \E a \in Actions :
        /\ states' = Append(states, state)
        /\ actions' = Append(actions, a)
        /\ rewards' = Append(rewards, R(0))
        /\ values' = Append(values, CriticForward(params.critic, state))
        /\ log_probs' = Append(log_probs, ActorLogProb(params.actor, state, a))
        /\ dones' = Append(dones, TRUE)
    /\ env_trace' = Append(env_trace, RaiseCall)
    /\ raised' = EnvError
    /\ pc' = "finally"
    /\ UNCHANGED <<state, final_value, episode_rewards, current_episode_reward, params,
                   gamma, gae_lambda, clip_ratio, target_kl, episode_count, success_count,
                   files, logged, num_iterations, max_steps, eventful, resume, gae, update,
                   evaluation, loss, hist>>

\* self.env.step(action) raises inside the collection loop (line 402): the
\* appends of lines 407-413 are not reached.
RolloutStepRaises ==
    /\ pc = "rollout"
    /\ CollectMore
    /\ env_trace' = Append(env_trace, RaiseCall)
    /\ raised' = EnvError
    /\ pc' = "finally"
    /\ UNCHANGED <<params, gamma, gae_lambda, clip_ratio, target_kl, episode_count,
                   success_count, files, logged, num_iterations, max_steps, eventful, resume,
                   rollout, gae, update, evaluation, loss, hist>>

\* finally: trainer.save_model(f'ppo_{params.comment}_latest.pth');
\* trainer.close().  It runs when train has returned and when an exception
\* left the try block; the process then exits and the frames of the calls end.
Finally ==
    /\ pc \in {"done", "finally"}
    /\ files' = SaveModel(LatestName)
    /\ state' = None
    /\ states' = <<>>
    /\ actions' = <<>>
    /\ rewards' = <<>>
    /\ values' = <<>>
    /\ log_probs' = <<>>
    /\ dones' = <<>>
    /\ final_value' = None
    /\ episode_rewards' = <<>>
    /\ current_episode_reward' = R(0)
    /\ advantages' = <<>>
    /\ returns' = <<>>
    /\ epoch' = 0
    /\ total_losses' = <<>>
    /\ value_losses' = <<>>
    /\ kl_divs' = <<>>
    /\ metrics' = None
    /\ loss_calls' = <<>>
    /\ terminated' = FALSE
    /\ truncated' = FALSE
    /\ min_rel_dist' = Inf
    /\ episode_reward' = R(0)
    /\ info' = NoInfo
    /\ env_trace' = <<>>
    /\ pc' = "exited"
    /\ UNCHANGED <<params, params0, gamma, gae_lambda, clip_ratio, target_kl, episode_count,
                   success_count, logged, num_iterations, max_steps, eventful, resume, raised,
                   loss, hist>>

\* The entry point: --resume is any of ResumeValues, and the checkpoint
\* directory is empty or holds the checkpoint of iteration CheckpointPeriod
\* of an earlier run.  The eventful call is the update or the evaluation of
\* the first iteration.
InitMain ==
    /\ pc = "main"
    /\ episode_count = 0
    /\ resume \in ResumeValues
    /\ num_iterations \in {ShortRun, LongRun}
    /\ max_steps = MainSteps
    /\ eventful \in [iteration : {0}, phase : {"update", "eval"}]
    /\ DefaultHyper
    /\ NoTrajectory
    /\ NoLossInput
    /\ params = FreshParams
    /\ success_count = 0
    /\ files \in {{}, {[name |-> CheckpointPeriod, params |-> EarlierParams]}}
    /\ resume = -1 => files = {}
    /\ logged = <<>>
    /\ state = None
    /\ actions = <<>>
    /\ log_probs = <<>>
    /\ episode_rewards = <<>>
    /\ current_episode_reward = R(0)
    /\ advantages = <<>>
    /\ returns = <<>>
    /\ epoch = 0
    /\ total_losses = <<>>
    /\ value_losses = <<>>
    /\ kl_divs = <<>>
    /\ metrics = None
    /\ terminated = FALSE
    /\ truncated = FALSE
    /\ min_rel_dist = Inf
    /\ episode_reward = R(0)
    /\ info = NoInfo
    /\ actor_loss = None
    /\ env_trace = <<>>
    /\ loss_calls = <<>>
    /\ params0 = FreshParams
    /\ hist = NoCalls
    /\ raised = NoError

NextMain ==
    \/ MainFresh
    \/ MainResume
    \/ MainLoadFails
    \/ Next
    \/ Interrupt
    \/ RolloutStepRaises
    \/ Finally

SpecMain == InitMain /\ [][NextMain]_vars

(***************************************************************************)
(* Properties.                                                             *)
(***************************************************************************)
\* The env.step calls of env_trace, in order.
StepCalls == SelectSeq(env_trace, LAMBDA c : c.op = "step")

\* The number of env.step calls among the first i calls of env_trace.
StepsUpTo(i) == Cardinality({j \in 1..i : env_trace[j].op = "step"})

Ended(c) == c.terminated \/ c.truncated

Collecting == pc \in {"rollout", "gae"}

\* C1: collect_rollout returns exactly max_steps recorded transitions (states,
\* actions, rewards, values, log_probs and dones all of length max_steps) and
\* one bootstrap value, whatever the environment did and however many episodes
\* ended during the collection; while it runs, the six buffers grow together
\* and never beyond max_steps.
C1_RolloutLength ==
    /\ pc = "rollout" =>
        /\ Len(states) <= max_steps
        /\ Len(actions) = Len(states)
        /\ Len(rewards) = Len(states)
        /\ Len(values) = Len(states)
        /\ Len(log_probs) = Len(states)
        /\ Len(dones) = Len(states)
        /\ Len(StepCalls) = Len(states)
    /\ pc = "gae" =>
        /\ Len(states) = max_steps
        /\ Len(actions) = max_steps
        /\ Len(rewards) = max_steps
        /\ Len(values) = max_steps
        /\ Len(log_probs) = max_steps
        /\ Len(dones) = max_steps
        /\ Len(StepCalls) = max_steps
        /\ final_value \in {CriticForward(params.critic, o) : o \in Obs}

\* C1 witness: a finished collection of the longest horizon during which two
\* episodes ended, one by termination and one by truncation.
C1_Witness ==
    /\ pc = "gae"
    /\ max_steps = MaxSteps
    /\ Len(states) = MaxSteps
    /\ final_value \in {CriticForward(params.critic, o) : o \in Obs}
    /\ \E i, j \in 1..Len(StepCalls) :
        /\ i < j
        /\ StepCalls[i].terminated
        /\ StepCalls[j].truncated /\ ~StepCalls[j].terminated

\* C2: for every recorded step t, dones[t] is the terminated signal the
\* environment returned for that step and nothing else; a step that was
\* truncated without being terminated is recorded with dones[t] = FALSE.
C2_DoneIsTerminated ==
    Collecting =>
        /\ Len(dones) = Len(StepCalls)
        /\ \A t \in 1..Len(dones) : dones[t] = StepCalls[t].terminated

\* C2 witness: a finished collection with a step truncated but not terminated,
\* recorded as not done although the environment was reset after it, and a
\* terminated step recorded as done.
C2_Witness ==
    /\ pc = "gae"
    /\ \E i \in 1..Len(env_trace) - 1 :
        /\ env_trace[i].op = "step"
        /\ env_trace[i].truncated /\ ~env_trace[i].terminated
        /\ env_trace[i + 1].op = "reset"
        /\ dones[StepsUpTo(i)] = FALSE
    /\ \E t \in 1..Len(dones) : StepCalls[t].terminated /\ dones[t] = TRUE

\* The calls of the environment and the buffers agree: the collection starts
\* with a reset; a step is followed at once by a reset exactly when it
\* returned terminated or truncated, and resets happen nowhere else; the
\* observation recorded for a step is the one returned by the call before it
\* (the reset, or else the previous step); and every step ever taken is still
\* recorded, in order.
C3_TraceAgrees ==
    Collecting =>
        /\ env_trace # <<>>
        /\ env_trace[1].op = "reset"
        /\ Len(states) = Len(StepCalls)
        /\ Len(rewards) = Len(StepCalls)
        /\ \A i \in 2..Len(env_trace) :
            /\ env_trace[i].op = "reset" <=>
                   (env_trace[i - 1].op = "step" /\ Ended(env_trace[i - 1]))
            /\ env_trace[i].op = "step" =>
                /\ states[StepsUpTo(i)] = env_trace[i - 1].obs
                /\ rewards[StepsUpTo(i)] = env_trace[i].reward
        /\ env_trace[Len(env_trace)].op = "step" => ~Ended(env_trace[Len(env_trace)])
        /\ pc = "rollout" => state = env_trace[Len(env_trace)].obs

IsPrefix(s, t) == Len(s) <= Len(t) /\ \A i \in 1..Len(s) : s[i] = t[i]

\* A pass of the collection loop only appends: one entry more in every
\* buffer, nothing already recorded dropped or overwritten.
C3_AppendOnly ==
    (pc = "rollout" /\ pc' = "rollout") =>
        /\ Len(states') = Len(states) + 1
        /\ IsPrefix(states, states')
        /\ IsPrefix(actions, actions')
        /\ IsPrefix(rewards, rewards')
        /\ IsPrefix(values, values')
        /\ IsPrefix(log_probs, log_probs')
        /\ IsPrefix(dones, dones')

\* C3: after each environment step the environment is reset if and only if
\* the step returned terminated or truncated; after a reset the collection
\* goes on appending to the same buffers, and the next recorded observation
\* is the one returned by the reset, otherwise the one returned by the step.
C3_ResetAndContinue == []C3_TraceAgrees /\ [][C3_AppendOnly]_vars

\* C3 witness: a step ended the episode, the reset returned another
\* observation than the step did, and the next recorded observation is the
\* reset's; the transition recorded before the reset is still there.
C3_Witness ==
    /\ pc = "gae"
    /\ \E i \in 2..Len(env_trace) - 2 :
        /\ env_trace[i].op = "step"
        /\ env_trace[i].truncated
        /\ env_trace[i + 1].op = "reset"
        /\ env_trace[i + 1].obs # env_trace[i].obs
        /\ env_trace[i + 2].op = "step"
        /\ states[StepsUpTo(i + 2)] = env_trace[i + 1].obs
        /\ rewards[StepsUpTo(i)] = env_trace[i].reward

GaeDone == pc = "train_step"

\* C4: GAE boundary law: for every trajectory, bootstrap value, gamma and
\* lambda, compute_gae returns one return per step and
\* returns[t] = advantages[t] + values[t] exactly for every index t.
C4_ReturnIsAdvantagePlusValue ==
    GaeDone =>
        /\ Len(advantages) = Len(rewards)
        /\ Len(returns) = Len(rewards)
        /\ \A t \in 1..Len(rewards) : returns[t] = RAdd(advantages[t], values[t])

\* C4 witness: a computed trajectory of the longest length with an episode
\* boundary inside it, in which some step has a non-zero advantage, a non-zero
\* value estimate and a return that differs from both.
C4_Witness ==
    /\ GaeDone
    /\ Len(rewards) = MaxGaeLen
    /\ \E t \in 1..Len(rewards) - 1 : dones[t]
    /\ \E t \in 1..Len(rewards) :
        /\ advantages[t] # R(0)
        /\ returns[t] # advantages[t]
        /\ returns[t] # values[t]

\* C5: episode-boundary isolation: whenever dones[t] is true, advantages[t] is
\* rewards[t] - values[t]: neither advantages[t + 1] nor the next value
\* (values[t + 1] or the bootstrap value) contributes, whatever gamma, lambda
\* and the rest of the trajectory are.
C5_BoundaryIsolation ==
    GaeDone =>
        \A t \in 1..Len(rewards) : dones[t] => advantages[t] = RSub(rewards[t], values[t])

\* C5 witness: a done step inside the trajectory whose successor has a non-zero
\* advantage and a non-zero value, with gamma and lambda both non-zero.
C5_Witness ==
    /\ GaeDone
    /\ gamma # R(0)
    /\ gae_lambda # R(0)
    /\ \E t \in 1..Len(rewards) - 1 :
        /\ dones[t]
        /\ advantages[t + 1] # R(0)
        /\ values[t + 1] # R(0)
        /\ advantages[t] = RSub(rewards[t], values[t])

RAbs(p) == <<Abs(p[1]), p[2]>>

\* x is about c: c is x rounded to four decimals.
About(x, c) == ~RLess(Frac(1, 20000), RAbs(RSub(x, c)))

ScenarioDone == GaeDone /\ Scenario

\* C6 as stated: in the scenario A_2 = 1, A_1 is about 1.9405, A_0 is about
\* 2.8273, and the returns equal the advantages.
C6_AsStated ==
    ScenarioDone =>
        /\ advantages[3] = R(1)
        /\ About(advantages[2], Frac(19405, 10000))
        /\ About(advantages[1], Frac(28273, 10000))
        /\ returns = advantages

\* C6 (amended): in the scenario rewards=[1,1,1], values=[0,0,0],
\* dones=[0,0,1], gamma=0.99, lambda=0.95, final_value=0 the backward recursion
\* yields A_2 = 1, A_1 = 1 + 0.99*0.95*1 = 1.9405 and
\* A_0 = 1 + 0.99*0.95*1.9405 = 2.82504025 (about 2.8250, not 2.8273), and the
\* returns equal the advantages.
C6_Scenario ==
    ScenarioDone =>
        /\ advantages[3] = R(1)
        /\ advantages[2] = Frac(19405, 10000)
        /\ advantages[2] = RAdd(R(1), RMul(RMul(Frac(99, 100), Frac(95, 100)), R(1)))
        /\ advantages[1] = Frac(282504025, 100000000)
        /\ advantages[1] =
               RAdd(R(1), RMul(RMul(Frac(99, 100), Frac(95, 100)), Frac(19405, 10000)))
        /\ About(advantages[1], Frac(28250, 10000))
        /\ ~About(advantages[1], Frac(28273, 10000))
        /\ returns = advantages

\* C6 witness: compute_gae has run on the scenario.
C6_Witness ==
    /\ ScenarioDone
    /\ Len(advantages) = 3
    /\ advantages[3] = R(1)

\* The gradient steps applied since the running train_step was entered.
Applied == params.actor_opt - params0.actor_opt

\* The epochs of the running train_step whose KL was too high.
HighEpochs == {i \in 1..Len(loss_calls) : KlTooHigh(loss_calls[i].kl_div)}

InUpdate == pc \in {"epoch", "stopped", "log"}

\* C7: early stop: in the first epoch whose approximate KL exceeds
\* 1.5 x target_kl neither optimizer steps, no later epoch is run and
\* train_step returns its metrics normally; so the gradient steps applied by a
\* call are the epochs that preceded the first such epoch, at most NumEpochs,
\* and both networks and both optimizers have taken the same number of steps.
C7_EarlyStop ==
    InUpdate =>
        /\ Applied <= NumEpochs
        /\ Len(loss_calls) <= NumEpochs
        /\ params.critic_opt - params0.critic_opt = Applied
        /\ params.actor - params0.actor = Applied
        /\ params.critic - params0.critic = Applied
        /\ IF HighEpochs = {}
           THEN /\ Applied = Len(loss_calls)
                /\ pc # "stopped"
                /\ pc = "log" => Applied = NumEpochs
           ELSE /\ HighEpochs = {Len(loss_calls)}
                /\ Applied = Len(loss_calls) - 1
                /\ pc # "epoch"
        /\ pc = "log" => metrics.kl_div[2] > 0

\* C7 witness: train_step has returned after its third epoch ran into the KL
\* limit, with the two earlier epochs applied.
C7_Witness ==
    /\ pc = "log"
    /\ Len(loss_calls) = 3
    /\ KlTooHigh(loss_calls[3].kl_div)
    /\ ~KlTooHigh(loss_calls[1].kl_div)
    /\ ~KlTooHigh(loss_calls[2].kl_div)
    /\ Applied = 2
    /\ metrics.kl_div = RDivInt(RSum([i \in 1..3 |-> loss_calls[i].kl_div]), 3)

\* The sum of one metric over the epochs the running train_step ran.
RECURSIVE SumOf(_, _)
SumOf(field, n) == IF n = 0 THEN R(0) ELSE RAdd(SumOf(field, n - 1), loss_calls[n][field])

\* m is the average of the metric over exactly the epochs that ran.
IsAverage(m, field) ==
    /\ Len(loss_calls) > 0
    /\ RMul(m, R(Len(loss_calls))) = SumOf(field, Len(loss_calls))

\* C8: early-stop determinism: when the second epoch's KL exceeds
\* 1.5 x target_kl, train_step applies exactly one gradient step; and the
\* metrics it returns (total loss, value loss, KL) are the averages over
\* exactly the epochs it ran in this call, the stopping epoch included, and
\* over nothing else.
C8_StopAtSecondEpoch ==
    pc = "log" =>
        /\ IsAverage(metrics.total_loss, "total_loss")
        /\ IsAverage(metrics.value_loss, "value_loss")
        /\ IsAverage(metrics.kl_div, "kl_div")
        /\ (Len(loss_calls) >= 2 /\ KlTooHigh(loss_calls[2].kl_div)) =>
            /\ Applied = 1
            /\ Len(loss_calls) = 2

\* C8 witness: train_step has returned after its second epoch ran into the KL
\* limit: one step applied, and the KL reported is the mean of the two epochs.
C8_Witness ==
    /\ pc = "log"
    /\ Len(loss_calls) = 2
    /\ ~KlTooHigh(loss_calls[1].kl_div)
    /\ KlTooHigh(loss_calls[2].kl_div)
    /\ Applied = 1
    /\ metrics.kl_div = RDivInt(RAdd(loss_calls[1].kl_div, loss_calls[2].kl_div), 2)
    /\ metrics.kl_div # loss_calls[1].kl_div
    /\ metrics.kl_div # loss_calls[2].kl_div

LossDone == pc = "loss_done" /\ Len(ratio) = 1

HighBinding == RLess(RAdd(R(1), clip_ratio), ratio[1]) /\ RLess(R(0), loss_adv[1])

LowBinding == RLess(ratio[1], RSub(R(1), clip_ratio)) /\ RLess(loss_adv[1], R(0))

\* m is the smaller of x and y.
IsMin(m, x, y) == m \in {x, y} /\ ~RLess(x, m) /\ ~RLess(y, m)

\* clip(rho, 1 - eps, 1 + eps)
Clipped(rho) ==
    IF RLess(RAdd(R(1), clip_ratio), rho)
    THEN RAdd(R(1), clip_ratio)
    ELSE IF RLess(rho, RSub(R(1), clip_ratio)) THEN RSub(R(1), clip_ratio) ELSE rho

\* C9: clip containment: for a single-sample batch, when ratio > 1 + eps and
\* the advantage is positive the actor loss is -(1 + eps) * advantage, and when
\* ratio < 1 - eps and the advantage is negative it is -(1 - eps) * advantage:
\* -clip(ratio) * advantage, a value in which the ratio does not occur; in all
\* other cases it is -min(ratio * advantage, clip(ratio) * advantage).
C9_ClipContainment ==
    LossDone =>
        /\ HighBinding => actor_loss = RNeg(RMul(RAdd(R(1), clip_ratio), loss_adv[1]))
        /\ LowBinding => actor_loss = RNeg(RMul(RSub(R(1), clip_ratio), loss_adv[1]))
        /\ IsMin(RNeg(actor_loss), RMul(ratio[1], loss_adv[1]),
                 RMul(Clipped(ratio[1]), loss_adv[1]))

\* C9 witness: a single sample with ratio 3/2 above 1 + 1/5 and advantage 2:
\* the loss is -(6/5) * 2 and not -(3/2) * 2.
C9_Witness ==
    /\ LossDone
    /\ clip_ratio = Frac(1, 5)
    /\ ratio[1] = Frac(3, 2)
    /\ loss_adv[1] = R(2)
    /\ HighBinding
    /\ actor_loss = Frac(-12, 5)

\* Checkpoints are saved at the iterations whose number is a multiple of
\* CheckpointPeriod, and only there.
SavedUpTo(n) == {f.name : f \in files} = {CheckpointPeriod * k : k \in 1..(n \div CheckpointPeriod)}

\* The steps of train that have completed, when n iterations are complete and
\* the running one has completed `more` of collect, gae, update, log, eval.
Progress(n, more) ==
    /\ hist.collect = n + (IF "collect" \in more THEN 1 ELSE 0)
    /\ hist.gae = n + (IF "gae" \in more THEN 1 ELSE 0)
    /\ hist.update = n + (IF "update" \in more THEN 1 ELSE 0)
    /\ hist.log = n + (IF "log" \in more THEN 1 ELSE 0)
    /\ hist.eval = n + (IF "eval" \in more THEN 1 ELSE 0)

\* C10: train(num_iterations) performs exactly num_iterations iterations; in
\* every iteration the steps occur in this order, each exactly once: collect
\* one rollout, compute advantages and returns, one train_step, emit the
\* diagnostics, save a checkpoint (only when the iteration's number is a
\* multiple of CheckpointPeriod), one evaluate_agent pass; and no step of the
\* next iteration starts before the evaluation of this one has finished.
C10_IterationOrder ==
    /\ pc \in {"loop", "rollout"} =>
        /\ Progress(episode_count, {})
        /\ hist.save = episode_count \div CheckpointPeriod
        /\ SavedUpTo(episode_count)
        /\ episode_count <= num_iterations
    /\ pc = "gae" => Progress(episode_count, {"collect"})
    /\ pc \in {"train_step", "epoch", "stopped"} =>
        Progress(episode_count, {"collect", "gae"})
    /\ pc = "log" => Progress(episode_count, {"collect", "gae", "update"})
    /\ pc = "save" =>
        /\ Progress(episode_count, {"collect", "gae", "update", "log"})
        /\ hist.save = episode_count \div CheckpointPeriod
        /\ SavedUpTo(episode_count)
    /\ pc \in {"eval", "eval_loop"} =>
        /\ Progress(episode_count, {"collect", "gae", "update", "log"})
        /\ hist.save = (episode_count + 1) \div CheckpointPeriod
        /\ SavedUpTo(episode_count + 1)
    /\ pc = "increment" =>
        /\ Progress(episode_count, {"collect", "gae", "update", "log", "eval"})
        /\ hist.save = (episode_count + 1) \div CheckpointPeriod
    /\ pc = "done" =>
        /\ Progress(num_iterations, {})
        /\ hist.save = num_iterations \div CheckpointPeriod
        /\ SavedUpTo(num_iterations)
        /\ Len(SelectSeq(logged, LAMBDA e : e.group = "train")) = num_iterations
        /\ Len(SelectSeq(logged, LAMBDA e : e.group = "eval")) = num_iterations

\* C10 witness: the long run has returned: LongRun iterations, one periodic
\* checkpoint, written in iteration 100.
C10_Witness ==
    /\ pc = "done"
    /\ num_iterations = LongRun
    /\ hist.collect = LongRun
    /\ hist.eval = LongRun
    /\ hist.save = 1
    /\ {f.name : f \in files} = {CheckpointPeriod}

\* The run was cut short by an interrupt and the process has exited.
Cancelled == pc = "exited" /\ raised.kind = "KeyboardInterrupt"

\* Places of an iteration at which params0 holds the parameters the
\* iteration started with: from the first epoch of train_step to the
\* increment of episode_count.
AfterUpdateBegan == {"epoch", "stopped", "log", "save", "eval", "eval_loop", "increment"}

\* The interrupt arrived in an iteration that had applied gradient steps and
\* had not reached its end.
HalfApplied == raised.at \in AfterUpdateBegan /\ params # params0

\* The file written by the finally clause holds the trainer's parameters.
LatestSaved == Exists(LatestName) /\ Checkpoint(LatestName).params = params

\* C11 as stated: when an interrupt arrives during training, at whatever point
\* of the iteration, the latest checkpoint is saved before the process exits
\* and no iteration is left half-applied: the parameters saved hold no
\* gradient step of an iteration that did not run to its end.
C11_CancelAtBoundary == Cancelled => (LatestSaved /\ ~HalfApplied)

\* The step is a gradient step of train_step: an epoch whose KL was not too
\* high, followed by the step of both optimizers.
GradientStep ==
    /\ pc = "epoch"
    /\ pc' = "epoch"
    /\ epoch' = epoch + 1
    /\ Len(loss_calls') = Len(loss_calls) + 1
    /\ ~KlTooHigh(loss_calls'[Len(loss_calls')].kl_div)
    /\ params' = OptimizerStep(params)

\* A step of collect_rollout, compute_gae or evaluate_agent, or the epoch of
\* train_step that stops early.
ReadOnlyStep ==
    \/ pc \in {"loop", "rollout", "gae", "eval", "eval_loop"}
    \/ pc = "epoch" /\ pc' = "stopped"

\* C12: during a training run the parameters (actor weights, critic weights,
\* both optimizers' state) change only in a gradient step of train_step:
\* every step of collect_rollout, compute_gae and evaluate_agent leaves them
\* unchanged, and so does the epoch of train_step that stops early.
C12_ParamsFrame ==
    [][(params' # params => GradientStep) /\ (ReadOnlyStep => params' = params)]_vars

\* C12 witness: an evaluation episode is running on parameters that the
\* iteration's train_step changed by one gradient step before its second
\* epoch stopped early, and they are still what train_step left.
C12_Witness ==
    /\ pc = "eval_loop"
    /\ Len(StepCalls) >= 1
    /\ Len(loss_calls) = 2
    /\ KlTooHigh(loss_calls[2].kl_div)
    /\ params = OptimizerStep(params0)
    /\ params # FreshParams

\* The sum of the rewards of the first n env.step calls of env_trace.
RECURSIVE RewardSum(_)
RewardSum(n) == IF n = 0 THEN R(0) ELSE RAdd(RewardSum(n - 1), StepCalls[n].reward)

\* m is the smallest info['relative_distance'] of the env.step calls.
IsMinDistance(m) ==
    /\ \E i \in 1..Len(StepCalls) : StepCalls[i].info.relative_distance = m
    /\ \A i \in 1..Len(StepCalls) : ~RLess(StepCalls[i].info.relative_distance, m)

\* The evaluation episode as evaluate_agent has it in hand: one reset, then
\* steps only; no step but the last one ended the episode; the flags, the
\* reward sum, the margin and the info are those of the steps taken.
C13_EpisodeAgrees ==
    pc = "eval_loop" =>
        /\ env_trace # <<>>
        /\ env_trace[1].op = "reset"
        /\ \A i \in 2..Len(env_trace) : env_trace[i].op = "step"
        /\ \A i \in 1..Len(StepCalls) - 1 : ~Ended(StepCalls[i])
        /\ episode_reward = RewardSum(Len(StepCalls))
        /\ IF StepCalls = <<>>
           THEN ~terminated /\ ~truncated
           ELSE /\ terminated = StepCalls[Len(StepCalls)].terminated
                /\ truncated = StepCalls[Len(StepCalls)].truncated
                /\ IsMinDistance(min_rel_dist)
                /\ info = StepCalls[Len(StepCalls)].info
                /\ state = StepCalls[Len(StepCalls)].obs

\* evaluate_agent returns only after a step that ended the episode, and
\* counts a success exactly when that step's info says so.
C13_ReportsLastStep ==
    (pc = "eval_loop" /\ pc' # "eval_loop") =>
        /\ StepCalls # <<>>
        /\ Ended(StepCalls[Len(StepCalls)])
        /\ logged' = Append(logged, Scalars("eval"))
        /\ success_count' =
               success_count + (IF StepCalls[Len(StepCalls)].info.success THEN 1 ELSE 0)

\* C13: evaluate_agent resets the environment once and steps it until the
\* first step that returns terminated or truncated, and stops there (one
\* episode, at least one step); the episode reward it reports is the sum of
\* the rewards of those steps, the margin the minimum of
\* info['relative_distance'] over those steps, and the success flag the one
\* of the last step's info.
C13_OneEpisode == []C13_EpisodeAgrees /\ [][C13_ReportsLastStep]_vars

\* C13 witness: an episode of the longest length has just ended by truncation
\* with success; both steps were rewarded, and the smallest margin was seen
\* at the first step, not at the last.
C13_Witness ==
    /\ pc = "eval_loop"
    /\ Len(StepCalls) = MaxEvalSteps
    /\ truncated /\ ~terminated
    /\ info.success
    /\ episode_reward = R(MaxEvalSteps)
    /\ min_rel_dist = StepCalls[1].info.relative_distance
    /\ RLess(min_rel_dist, StepCalls[Len(StepCalls)].info.relative_distance)

\* The calls of env_trace that raised.
RaiseCalls == SelectSeq(env_trace, LAMBDA c : c.op = "raise")

\* The environment raised in the collection loop and the exception is on
\* its way out.
CollectFailed == pc = "finally" /\ raised.kind = "EnvError"

\* Once the environment has raised in collect_rollout the run is over but
\* for the finally clause: the step was tried once, the buffers hold the
\* transitions of the steps that returned and nothing for the failing one,
\* and the iteration's compute_gae and train_step have not run.
C14_NothingRecorded ==
    /\ raised.kind = "EnvError" => pc \in {"finally", "exited"}
    /\ CollectFailed =>
        /\ raised.at = "rollout"
        /\ Len(RaiseCalls) = 1
        /\ env_trace[Len(env_trace)].op = "raise"
        /\ Len(states) = Len(StepCalls)
        /\ Len(actions) = Len(StepCalls)
        /\ Len(rewards) = Len(StepCalls)
        /\ Len(values) = Len(StepCalls)
        /\ Len(log_probs) = Len(StepCalls)
        /\ Len(dones) = Len(StepCalls)
        /\ Len(states) < max_steps
        /\ hist.collect = episode_count
        /\ hist.gae = episode_count
        /\ hist.update = episode_count

\* The failing step leaves the six buffers as they were, and no step of the
\* training loop follows it.
C14_BuffersKept ==
    /\ (raised.kind = "none" /\ raised'.kind = "EnvError") =>
        /\ pc = "rollout"
        /\ pc' = "finally"
        /\ UNCHANGED <<states, actions, rewards, values, log_probs, dones>>
        /\ UNCHANGED <<params, hist, episode_count>>
    /\ raised.kind = "EnvError" => (pc' = "exited" /\ UNCHANGED <<params, hist, raised>>)

\* C14: if the environment raises during a step of collect_rollout, the
\* exception propagates out of collect_rollout and out of the training
\* iteration without a retry of the step, and no transition is recorded for
\* the failing step: all six buffers keep the length they had before it, and
\* no train_step is run on the partial trajectory.
C14_EnvFailure == []C14_NothingRecorded /\ [][C14_BuffersKept]_vars

\* C14 witness: the environment raised at the second step of a collection:
\* each buffer holds the one transition recorded before it.
C14_Witness ==
    /\ CollectFailed
    /\ Len(StepCalls) = 1
    /\ Len(states) = 1
    /\ Len(dones) = 1
    /\ Len(RaiseCalls) = 1
    /\ hist.update = episode_count

\* load_model has failed and the error is on its way out.
LoadFailed == pc = "finally" /\ raised.kind = "ValueError"

\* After a failed load the error names the file asked for, which is not
\* there, and the trainer is as its constructor left it.
C15_NothingLoaded ==
    /\ raised.kind = "ValueError" =>
        /\ pc \in {"finally", "exited"}
        /\ raised.path = resume
        /\ raised.at = "main"
        /\ ~Exists(resume)
        /\ params = FreshParams
        /\ episode_count = 0
        /\ hist = NoCalls

\* load_model on a missing file raises and writes nothing; it raises on no
\* other occasion.
C15_LoadFails ==
    /\ (pc = "main" /\ resume > 0 /\ ~Exists(resume)) =>
        /\ raised' = [kind |-> "ValueError", path |-> resume, at |-> "main"]
        /\ pc' = "finally"
        /\ UNCHANGED <<params, files, episode_count>>
    /\ (raised.kind = "none" /\ raised'.kind = "ValueError") =>
        (pc = "main" /\ ~Exists(resume) /\ params' = params)

\* C15: load_model on a checkpoint file that does not exist fails with an
\* error that names the missing path and loads nothing: actor weights, critic
\* weights and both optimizers' state are what they were before the call.
C15_MissingCheckpoint == []C15_NothingLoaded /\ [][C15_LoadFails]_vars

\* C15 witness: the checkpoint asked for is missing while another checkpoint,
\* with other parameters than the trainer's, is in the directory; the load has
\* failed and the trainer's parameters are still its own.
C15_Witness ==
    /\ LoadFailed
    /\ raised.path = 2 * CheckpointPeriod
    /\ Exists(CheckpointPeriod)
    /\ Checkpoint(CheckpointPeriod).params # params
    /\ params = FreshParams

\* C16 as stated: in the trajectory collect_rollout hands to compute_gae, for
\* every step t that is not done the next-state value that bootstraps step t
\* (values[t + 1], or the bootstrap value at the last step) is the critic's
\* estimate of the observation the environment returned from step t, also
\* when step t was truncated without being terminated.
C16_BootstrapIsSuccessor ==
    pc = "gae" =>
        \A t \in 1..Len(dones) :
            ~dones[t] =>
                NextValueAt(values, final_value, t) =
                    CriticForward(params.critic, StepCalls[t].obs)

\* The run was resumed: load_model returned and train was called.
Resumed == resume > 0 /\ raised.kind # "ValueError" /\ pc # "main"

\* C17 as stated: a run resumed from checkpoint k > 0 continues from
\* iteration index k: inside train the index is never below k, the
\* diagnostics are written at steps from k on, train performs
\* num_iterations - k iterations, and the checkpoint it was resumed from is
\* not overwritten.
C17_ResumeContinues ==
    Resumed =>
        /\ (InTrain /\ pc # "train") => episode_count >= resume
        /\ \A i \in 1..Len(logged) : logged[i].step >= resume
        /\ pc = "done" =>
               hist.collect = (IF num_iterations > resume THEN num_iterations - resume ELSE 0)
        /\ Exists(resume)
        /\ Checkpoint(resume).params = EarlierParams

=============================================================================
